---- MODULE Spec2Model ----
(***************************************************************************)
(* Conversational memory subsystem: MemoryManager                         *)
(* (src/src/api/memory_manager.py) and VectorMemoryManager                *)
(* (src/src/api/vector_memory_manager.py).                                *)
(*                                                                         *)
(* Texts and user ids are sequences of one-character strings, so that     *)
(* lower(), split(), strip(), isalnum() and substring tests are computed  *)
(* as the code computes them.  Timestamps are integer clock readings      *)
(* (one unit = one day); datetime.isoformat() is order preserving on      *)
(* them, so the string comparison of the code is the integer comparison.  *)
(***************************************************************************)
EXTENDS Integers, Sequences, FiniteSets, TLC

(* ------------------------------------------------------------------ *)
(* Bounds of the exploration                                            *)
(* ------------------------------------------------------------------ *)
\* store_conversation_memory calls that wrote a record document
MaxStores == 3
\* other calls (retrievals, profile reads and updates, context blocks)
MaxCalls == 2
\* clock readings 0 .. MaxTime
MaxTime == 2
\* I/O steps that fail in one run
MaxFaults == 1

(* ------------------------------------------------------------------ *)
(* Configuration of the managers (constructor arguments, scaled)        *)
(* ------------------------------------------------------------------ *)
max_memory_items == 2
memory_retention_days == 1
\* similarity_threshold as a fraction ThresholdNum / ThresholdDen (0.3)
ThresholdNum == 3
ThresholdDen == 10
DefaultMaxResults == 3

(* ------------------------------------------------------------------ *)
(* Input domains                                                        *)
(* ------------------------------------------------------------------ *)
\* two user ids that differ only in a non-alphanumeric character
UserIds == { <<"a", ".", "b">>, <<"a", "_", "b">> }
ThreadIds == { "t1", "t2" }
\* conversation turns offered to store_conversation_memory: one per thread,
\* the second made of stop words only
Turns == { [thread_id |-> "t1",
            query |-> <<"A", "p", "i">>,
            response |-> <<"a", "p", "i", " ", "a", "b">>],
           [thread_id |-> "t2",
            query |-> <<"t", "h", "e">>,
            response |-> <<"T", "h", "e">>] }
\* queries offered to get_relevant_memories / format_context_for_agent
SearchQueries == { <<"a", "p", "i">>, <<"t", "h", "e">>, <<" ">> }
\* (query, max_results) offered to get_relevant_memories
Retrievals == { [query |-> <<"a", "p", "i">>, max_results |-> DefaultMaxResults],
                [query |-> <<"t", "h", "e">>, max_results |-> 1],
                [query |-> <<" ">>, max_results |-> DefaultMaxResults] }
\* interaction_data offered to update_user_profile; a dict of preferences is
\* the set of its <<key, value>> items
InteractionData == { [has_topic |-> TRUE, topic |-> "products",
                      has_preferences |-> TRUE,
                      preferences |-> { <<"focus", "ar">> }],
                     [has_topic |-> FALSE, topic |-> "",
                      has_preferences |-> FALSE, preferences |-> {}] }

(* ------------------------------------------------------------------ *)
(* Text primitives                                                      *)
(* ------------------------------------------------------------------ *)
Min(a, b) == IF a <= b THEN a ELSE b

AlNum == { "a", "b", "e", "h", "i", "p", "t", "A", "T" }

\* str.isalnum() on one character
isalnum(c) == c \in AlNum

\* str.lower() on one character (the upper-case letters in use are "A", "T")
LowerChar(c) == IF c = "A" THEN "a" ELSE IF c = "T" THEN "t" ELSE c

\* str.lower()
lower(s) == [i \in DOMAIN s |-> LowerChar(s[i])]

IsSpace(c) == c = " "

RECURSIVE lstrip(_)
lstrip(s) == IF s = <<>> THEN <<>>
             ELSE IF IsSpace(Head(s)) THEN lstrip(Tail(s)) ELSE s

RECURSIVE rstrip(_)
rstrip(s) == IF s = <<>> THEN <<>>
             ELSE IF IsSpace(s[Len(s)]) THEN rstrip(SubSeq(s, 1, Len(s) - 1)) ELSE s

\* str.strip()
strip(s) == rstrip(lstrip(s))

\* str.split(): the maximal runs of non-space characters, in order
RECURSIVE SplitFrom(_, _, _)
SplitFrom(s, i, cur) ==
    IF i > Len(s)
    THEN IF cur = <<>> THEN <<>> ELSE <<cur>>
    ELSE IF IsSpace(s[i])
         THEN (IF cur = <<>> THEN <<>> ELSE <<cur>>) \o SplitFrom(s, i + 1, <<>>)
         ELSE SplitFrom(s, i + 1, Append(cur, s[i]))

split(s) == SplitFrom(s, 1, <<>>)

Range(f) == { f[i] : i \in DOMAIN f }

\* set(text.lower().split())
WordSet(s) == Range(split(lower(s)))

\* f"{query} {response}"
JoinQR(q, r) == q \o <<" ">> \o r

\* keyword in text (substring test)
Contains(text, kw) ==
    \E i \in 0 .. (Len(text) - Len(kw)) :
        \A j \in 1 .. Len(kw) : text[i + j] = kw[j]

(* ------------------------------------------------------------------ *)
(* MemoryManager._get_user_memory_path: the file name stem             *)
(* ------------------------------------------------------------------ *)
safe_user_id(user_id) ==
    [i \in DOMAIN user_id |-> IF isalnum(user_id[i]) THEN user_id[i] ELSE "_"]

SafeIds == { safe_user_id(u) : u \in UserIds }

(* ------------------------------------------------------------------ *)
(* State                                                                *)
(* ------------------------------------------------------------------ *)
VARIABLES
    manager,            \* the class that was constructed
    similarity_threshold, \* VectorMemoryManager.similarity_threshold, in
                        \* units of 1 / ThresholdDen
    now,                \* datetime.now()
    mm_files,           \* MemoryManager: <safe id>_memory.json documents
    mm_profiles,        \* MemoryManager: <user_id>_profile.json documents
    v_threads,          \* VectorMemoryManager: users/<id>/conversations/<thread>.json
    v_profiles,         \* VectorMemoryManager: users/<id>/profile.json
    memory_cache,       \* VectorMemoryManager._memory_cache
    vectorizer_fitted,  \* VectorMemoryManager._vectorizer_fitted
    vectorizer,         \* what the last successful TfidfVectorizer.fit learned
    ret,                \* the last call and what it returned
    stores,             \* number of store calls that wrote a record document
    calls,              \* number of other calls made
    faults,             \* number of I/O steps that failed
    hist,               \* per user: what happened to its store calls (observer)
    pc,                 \* position of each concurrent store operation
    loc                 \* locals of each concurrent store operation

vars == << manager, similarity_threshold, now, mm_files, mm_profiles, v_threads, v_profiles,
           memory_cache, vectorizer_fitted, vectorizer, ret, stores, calls,
           faults, hist, pc, loc >>

\* a document of the store: missing, or present with parsed content
NoFile == [exists |-> FALSE, data |-> <<>>]
File(d) == [exists |-> TRUE, data |-> d]

NoProfile == [exists |-> FALSE,
              data |-> [user_id |-> <<>>, created_at |-> 0, last_interaction |-> <<>>,
                        total_interactions |-> 0, preferences |-> {},
                        topics_of_interest |-> <<>>]]

\* an optional value (None / a value)
None == <<>>
Some(x) == <<x>>

\* a score is a fraction num / den with den > 0
ScoreLess(a, b) == a.num * b.den < b.num * a.den

\* list.sort(key = score, reverse = True): descending, and stable (entries
\* with equal keys keep their order)
\* the scored list left in the order the records were loaded
Unsorted(s) == s

RECURSIVE InsertDesc(_, _)
InsertDesc(sorted, x) ==
    IF sorted = <<>> THEN <<x>>
    ELSE IF ScoreLess(Head(sorted), x) THEN <<x>> \o sorted
         ELSE <<Head(sorted)>> \o InsertDesc(Tail(sorted), x)

RECURSIVE SortDesc(_)
SortDesc(s) ==
    IF s = <<>> THEN <<>>
    ELSE InsertDesc(SortDesc(SubSeq(s, 1, Len(s) - 1)), s[Len(s)])

\* s[:k]
Prefix(s, k) == SubSeq(s, 1, Min(Len(s), k))

(* ------------------------------------------------------------------ *)
(* What a call returns                                                  *)
(* ------------------------------------------------------------------ *)
NoProfileData == [user_id |-> <<>>, created_at |-> 0, last_interaction |-> None,
                  total_interactions |-> 0, preferences |-> {},
                  topics_of_interest |-> <<>>]

NoRet == [op |-> "none", user_id |-> <<>>, thread_id |-> "", query |-> <<>>,
          max_results |-> 0, returned |-> "None", list |-> <<>>,
          profile |-> NoProfileData, text |-> <<>>, path |-> "",
          io_failed |-> FALSE, wrote_record |-> FALSE,
          wrote_profile |-> FALSE, had_cache |-> FALSE]

(* ------------------------------------------------------------------ *)
(* MemoryManager                                                        *)
(* ------------------------------------------------------------------ *)
ResponseCap == 1000

\* lines 88-107 of store_conversation_memory: the list that is written
MMNewMemories(loaded, thread_id, query, response, t, n, user_id) ==
    LET memory_item == [timestamp |-> t,
                        thread_id |-> thread_id,
                        query     |-> query,
                        response  |-> Prefix(response, ResponseCap),
                        metadata  |-> {},
                        g_seq     |-> n,
                        g_user    |-> user_id]
        inserted == <<memory_item>> \o loaded
        capped == IF Len(inserted) > max_memory_items
                  THEN Prefix(inserted, max_memory_items) ELSE inserted
        cutoff_date == t - memory_retention_days
    IN  SelectSeq(capped, LAMBDA m : m.timestamp >= cutoff_date)

\* the store as it would be if it did not read the existing document
MMLoadedNothing(file, fault) == <<>>

\* lines 79-86 of store_conversation_memory: the list that is loaded
MMLoaded(file, fault) ==
    IF file.exists /\ fault # "read" THEN file.data ELSE <<>>

\* the relevance pass of get_relevant_memories (lines 145-159)
MMScored(memories, query) ==
    LET query_keywords == WordSet(query)
        overlap(m) == Cardinality(query_keywords \cap WordSet(m.query))
        all == [i \in DOMAIN memories |->
                  [item |-> memories[i], num |-> overlap(memories[i]), den |-> 1]]
    IN  SelectSeq(all, LAMBDA e : e.num > 0)

MMRank(memories, query, max_results) ==
    LET top == Prefix(SortDesc(MMScored(memories, query)), max_results)
    IN  [i \in DOMAIN top |-> top[i].item]

MMDefaultProfile(user_id, t) ==
    [user_id |-> user_id, created_at |-> t, last_interaction |-> None,
     total_interactions |-> 0, preferences |-> {}, topics_of_interest |-> <<>>]

\* get_user_profile: the profile returned and the profile documents afterwards
MM_get_user_profile(profiles, user_id, t, fault) ==
    IF profiles[user_id].exists /\ fault = "profile_fields"
    THEN \* json.load returns a document without the expected keys
         [profile |-> NoProfileData, profiles |-> profiles, failed |-> FALSE]
    ELSE IF profiles[user_id].exists /\ fault # "profile_read"
    THEN [profile |-> profiles[user_id].data, profiles |-> profiles,
          failed |-> FALSE]
    ELSE LET default_profile == MMDefaultProfile(user_id, t)
         IN  [profile |-> default_profile,
              profiles |-> IF fault # "profile_write"
                           THEN [profiles EXCEPT ![user_id] = File(default_profile)]
                           ELSE profiles,
              failed |-> fault \in {"profile_read", "profile_write"}]

\* a dict that keeps the old item of a key next to the new one
DictUnion(d, new) == d \cup new

\* dict update by key on a set of <<key, value>> items
DictUpdate(d, new) ==
    { kv \in d : ~ \E nkv \in new : nkv[1] = kv[1] } \cup new

\* lines 212-223 of update_user_profile
MMUpdatedProfile(profile, interaction_data, t) ==
    [profile EXCEPT
        !.last_interaction = Some(t),
        !.total_interactions = @ + 1,
        !.preferences = IF interaction_data.has_preferences
                        THEN DictUpdate(@, interaction_data.preferences) ELSE @,
        !.topics_of_interest =
            IF interaction_data.has_topic /\ interaction_data.topic # ""
               /\ interaction_data.topic \notin Range(@)
            THEN Append(@, interaction_data.topic) ELSE @]

\* one line of the context block
Line(kind) == [kind |-> kind, num |-> 0, date |-> 0, prefs |-> {},
               topics |-> <<>>, query |-> <<>>, response |-> <<>>,
               score |-> [num |-> 0, den |-> 1]]

TopicLimit == 5
ExcerptLimit == 200

\* lines 250-281 of format_context_for_agent
MMContext(profile, relevant_memories) ==
    LET profile_part ==
            IF profile.total_interactions > 0
            THEN << Line("profile_header"),
                    [Line("total") EXCEPT !.num = profile.total_interactions] >>
                 \o (IF profile.preferences # {}
                     THEN << [Line("preferences") EXCEPT !.prefs = profile.preferences] >>
                     ELSE <<>>)
                 \o (IF profile.topics_of_interest # <<>>
                     THEN << [Line("topics") EXCEPT
                                !.topics = Prefix(profile.topics_of_interest, TopicLimit)] >>
                     ELSE <<>>)
            ELSE <<>>
        memory_lines(i) ==
            << [Line("memory") EXCEPT !.num = i,
                                      !.date = relevant_memories[i].timestamp,
                                      !.query = relevant_memories[i].query,
                                      !.response = Prefix(relevant_memories[i].response,
                                                          ExcerptLimit)],
               Line("blank") >>
        RECURSIVE memory_part(_)
        memory_part(i) == IF i > Len(relevant_memories) THEN <<>>
                          ELSE memory_lines(i) \o memory_part(i + 1)
    IN  << Line("header") >> \o profile_part
        \o (IF relevant_memories # <<>>
            THEN << Line("history_header") >> \o memory_part(1) ELSE <<>>)

\* an I/O step fails
Faulty(fault) ==
    /\ fault # "none" => faults < MaxFaults
    /\ faults' = IF fault # "none" THEN faults + 1 ELSE faults

\* get_relevant_memories as a function of the documents
MM_get_relevant_memories(files, user_id, query, max_results, fault) ==
    LET file == files[safe_user_id(user_id)]
    IN  IF ~file.exists THEN <<>>
        ELSE IF fault \in {"read", "record_fields"} THEN <<>>
        ELSE MMRank(file.data, query, max_results)

\* the faults after which store_conversation_memory has written nothing: the
\* write failed, or a loaded record without "timestamp" raised KeyError at
\* line 107
NotWritten == { "write", "record_fields" }

MMStore(user_id, turn, fault) ==
    LET path == safe_user_id(user_id)
        memories == MMNewMemories(MMLoaded(mm_files[path], fault), turn.thread_id,
                                  turn.query, turn.response, now, stores + 1, user_id)
    IN  /\ manager = "MemoryManager"
        /\ Faulty(fault)
        /\ stores < MaxStores
        /\ fault \in {"read", "record_fields"} => mm_files[path].exists
        /\ mm_files' = IF fault \notin NotWritten
                       THEN [mm_files EXCEPT ![path] = File(memories)]
                       ELSE mm_files
        /\ ret' = [NoRet EXCEPT !.op = "store", !.user_id = user_id,
                                !.returned = IF fault = "record_fields"
                                             THEN "raised" ELSE "None",
                                !.io_failed = fault # "none",
                                !.wrote_record = (fault \notin NotWritten)]
        /\ stores' = IF fault \notin NotWritten THEN stores + 1 ELSE stores
        /\ hist' = IF fault \notin NotWritten
                   THEN [hist EXCEPT ![user_id].stored = @ + 1]
                   ELSE hist
        /\ UNCHANGED << manager, similarity_threshold, now, mm_profiles, v_threads, v_profiles,
                        memory_cache, vectorizer_fitted, vectorizer, calls, pc, loc >>

MMGetRelevantMemories(user_id, query, max_results, fault) ==
    /\ manager = "MemoryManager"
    /\ Faulty(fault)
    /\ calls < MaxCalls
    /\ calls' = calls + 1
    /\ fault \in {"read", "record_fields"} => mm_files[safe_user_id(user_id)].exists
    /\ ret' = [NoRet EXCEPT !.op = "get_relevant_memories", !.user_id = user_id,
                            !.query = query, !.max_results = max_results,
                            !.returned = IF fault = "record_fields"
                                         THEN "raised" ELSE "list",
                            !.list = MM_get_relevant_memories(mm_files, user_id, query,
                                                              max_results, fault),
                            !.io_failed = fault # "none"]
    /\ UNCHANGED << manager, similarity_threshold, now,
                    mm_files, mm_profiles, v_threads, v_profiles,
                    memory_cache, vectorizer_fitted, vectorizer, stores, hist,
                    pc, loc >>

MMGetUserProfile(user_id, fault) ==
    LET r == MM_get_user_profile(mm_profiles, user_id, now, fault)
    IN  /\ manager = "MemoryManager"
        /\ Faulty(fault)
        /\ calls < MaxCalls
        /\ calls' = calls + 1
        /\ fault \in {"profile_read", "profile_fields"} => mm_profiles[user_id].exists
        /\ fault = "profile_write" => ~mm_profiles[user_id].exists
        /\ mm_profiles' = r.profiles
        /\ ret' = [NoRet EXCEPT !.op = "get_user_profile", !.user_id = user_id,
                                !.returned = IF fault = "profile_fields"
                                             THEN "incomplete" ELSE "profile",
                                !.profile = r.profile, !.io_failed = r.failed,
                                !.wrote_profile = (r.profiles # mm_profiles)]
        /\ UNCHANGED << manager, similarity_threshold, now, mm_files, v_threads, v_profiles,
                        memory_cache, vectorizer_fitted, vectorizer, stores, hist,
                        pc, loc >>

MMUpdateUserProfile(user_id, interaction_data, fault) ==
    LET r == MM_get_user_profile(mm_profiles, user_id, now, fault)
        profile == MMUpdatedProfile(r.profile, interaction_data, now)
    IN  /\ manager = "MemoryManager"
        /\ Faulty(fault)
        /\ calls < MaxCalls
        /\ calls' = calls + 1
        /\ fault \in {"profile_read", "profile_fields"} => mm_profiles[user_id].exists
        /\ mm_profiles' = IF fault \notin {"profile_write", "profile_fields"}
                          THEN [r.profiles EXCEPT ![user_id] = File(profile)]
                          ELSE r.profiles
        /\ ret' = [NoRet EXCEPT !.op = "update_user_profile", !.user_id = user_id,
                                !.profile = profile,
                                \* line 213 on a profile without the key
                                !.returned = IF fault = "profile_fields"
                                             THEN "raised" ELSE "None",
                                !.io_failed = fault # "none",
                                !.wrote_profile =
                                    (fault \notin {"profile_write", "profile_fields"})]
        /\ UNCHANGED << manager, similarity_threshold, now, mm_files, v_threads, v_profiles,
                        memory_cache, vectorizer_fitted, vectorizer, stores, hist,
                        pc, loc >>

MMFormatContextForAgent(user_id, query, fault) ==
    LET relevant_memories == MM_get_relevant_memories(mm_files, user_id, query,
                                                      DefaultMaxResults, fault)
        r == MM_get_user_profile(mm_profiles, user_id, now, fault)
    IN  /\ manager = "MemoryManager"
        /\ Faulty(fault)
        /\ calls < MaxCalls
        /\ calls' = calls + 1
        /\ fault \in {"read", "record_fields"} => mm_files[safe_user_id(user_id)].exists
        /\ fault \in {"profile_read", "profile_fields"} => mm_profiles[user_id].exists
        /\ fault = "profile_write" => ~mm_profiles[user_id].exists
        /\ IF fault = "record_fields"
           THEN \* get_relevant_memories raised KeyError (line 247)
                /\ UNCHANGED mm_profiles
                /\ ret' = [NoRet EXCEPT !.op = "format_context_for_agent",
                                        !.user_id = user_id, !.query = query,
                                        !.returned = "raised", !.io_failed = TRUE]
           ELSE /\ mm_profiles' = r.profiles
                /\ ret' = [NoRet EXCEPT !.op = "format_context_for_agent",
                                        !.user_id = user_id, !.query = query,
                                        !.returned = "text",
                                        !.list = relevant_memories,
                                        !.profile = r.profile,
                                        !.text = MMContext(r.profile, relevant_memories),
                                        !.io_failed = fault # "none",
                                        !.wrote_profile = (r.profiles # mm_profiles)]
        /\ UNCHANGED << manager, similarity_threshold, now, mm_files, v_threads, v_profiles,
                        memory_cache, vectorizer_fitted, vectorizer, stores, hist,
                        pc, loc >>

\* the clock advances
Tick ==
    /\ now < MaxTime
    /\ now' = now + 1
    /\ UNCHANGED << manager, similarity_threshold, mm_files, mm_profiles, v_threads, v_profiles,
                    memory_cache, vectorizer_fitted, vectorizer, ret, stores, calls,
                    faults, hist, pc, loc >>

(* ------------------------------------------------------------------ *)
(* VectorMemoryManager: storage and cache                               *)
(* ------------------------------------------------------------------ *)
\* the I/O step of a call that fails, if any
Faults == { "none", "read", "write", "load", "profile_read", "profile_write",
            "transform" }

\* os.listdir returns the thread files in an arbitrary order
ThreadOrders ==
    { o \in [1 .. Cardinality(ThreadIds) -> ThreadIds] :
        \A i, j \in DOMAIN o : i # j => o[i] # o[j] }

VNoProfile == [exists |-> FALSE,
               data |-> [user_id |-> <<>>, created_at |-> 0, last_interaction |-> <<>>,
                         total_interactions |-> 0, preferences |-> {},
                         topics_of_interest |-> <<>>,
                         memory_stats |-> [total_memories |-> 0,
                                           avg_similarity_threshold |->
                                               <<ThresholdNum, ThresholdDen>>]]]

\* the memories of the listed thread files, concatenated (lines 83-88)
RECURSIVE ReadThreads(_, _)
ReadThreads(threads, order) ==
    IF order = <<>> THEN <<>>
    ELSE (IF threads[Head(order)].exists THEN threads[Head(order)].data ELSE <<>>)
         \o ReadThreads(threads, Tail(order))

\* _load_user_memories: raised, or the list returned and the cache afterwards
V_load_user_memories(cache, threads, user_id, order, fault) ==
    IF cache[user_id].exists
    THEN [raised |-> FALSE, memories |-> cache[user_id].data, cache |-> cache]
    ELSE IF fault = "load"
    THEN [raised |-> TRUE, memories |-> <<>>, cache |-> cache]
    ELSE LET memories == ReadThreads(threads[user_id], order)
         IN  [raised |-> FALSE, memories |-> memories,
              cache |-> [cache EXCEPT ![user_id] = File(memories)]]

\* the documents get_relevant_memories and _prepare_text_corpus build
Documents(memories) ==
    [i \in DOMAIN memories |-> strip(JoinQR(memories[i].query, memories[i].response))]

(* ------------------------------------------------------------------ *)
(* The term-weighting model.  The fit learns the vocabulary of the      *)
(* corpus (unigrams and bigrams of the words of two or more characters  *)
(* that are not stop words); a transform counts the terms of that       *)
(* vocabulary.  Inverse document frequencies are real numbers and are   *)
(* taken as 1; a similarity is kept as the square of the cosine, a      *)
(* fraction, which orders and thresholds as the cosine does.            *)
(* ------------------------------------------------------------------ *)
StopWords == { <<"t", "h", "e">> }
MaxFeatures == 1000
NgramMax == 2

Tokens(doc) ==
    SelectSeq(split(lower(doc)), LAMBDA w : Len(w) >= 2 /\ w \notin StopWords)

\* the n-grams of a document as a sequence of terms (a term is a sequence of words)
Terms(doc) ==
    LET ts == Tokens(doc)
    IN  [i \in 1 .. Len(ts) |-> <<ts[i]>>]
        \o (IF NgramMax >= 2 /\ Len(ts) >= 2
            THEN [i \in 1 .. (Len(ts) - 1) |-> <<ts[i], ts[i + 1]>>]
            ELSE <<>>)

Vocabulary(corpus) == UNION { Range(Terms(corpus[i])) : i \in DOMAIN corpus }

Unfitted == [vocabulary |-> {}, g_user |-> <<>>, g_corpus |-> <<>>]

\* vectorizer.fit(corpus): raises on an empty vocabulary
FitRaises(corpus) == Vocabulary(corpus) = {}

Fit(corpus, user_id) ==
    [vocabulary |-> Vocabulary(corpus), g_user |-> user_id, g_corpus |-> corpus]

\* sum over the vocabulary of count(term in a) * count(term in b), for two
\* sequences of terms
Dot(vocabulary, a, b) ==
    Cardinality({ ij \in (DOMAIN a) \X (DOMAIN b) :
                    a[ij[1]] = b[ij[2]] /\ a[ij[1]] \in vocabulary })

\* cosine_similarity(transform([query]), transform([doc])), squared
Cosine2(model, query_terms, doc_terms) ==
    LET dot == Dot(model.vocabulary, query_terms, doc_terms)
        nq == Dot(model.vocabulary, query_terms, query_terms)
        nd == Dot(model.vocabulary, doc_terms, doc_terms)
    IN  IF nq = 0 \/ nd = 0 THEN [num |-> 0, den |-> 1]
        ELSE [num |-> dot * dot, den |-> nq * nd]

\* score >= self.similarity_threshold, on the squares
AtLeastThreshold(score) ==
    score.num * ThresholdDen * ThresholdDen
        >= similarity_threshold * similarity_threshold * score.den

\* lines 213-245: the records at or above the threshold, best first
VectorRank(model, memories, query, max_results) ==
    LET documents == Documents(memories)
        query_terms == Terms(query)
        scored(i) == LET sc == Cosine2(model, query_terms, Terms(documents[i]))
                     IN  [item |-> memories[i], num |-> sc.num, den |-> sc.den]
        all == [i \in DOMAIN memories |-> scored(i)]
        relevant == SelectSeq(all, AtLeastThreshold)
    IN  Prefix(SortDesc(relevant), max_results)

\* _keyword_based_search
keyword_based_search(memories, query, max_results) ==
    LET query_words == WordSet(query)
        memory_words(m) == WordSet(lower(JoinQR(m.query, m.response)))
        all == [i \in DOMAIN memories |->
                  [item |-> memories[i],
                   num |-> Cardinality(query_words \cap memory_words(memories[i])),
                   den |-> Cardinality(query_words \cup memory_words(memories[i]))]]
        scored_memories == SelectSeq(all, LAMBDA e : e.num > 0)
    IN  Prefix(SortDesc(scored_memories), max_results)

\* topic_keywords of _extract_topics, in dict order
topic_keywords ==
    << [topic |-> "technical",
        keywords |-> { <<"a", "p", "i">>,
                      <<"c", "o", "d", "e">>,
                      <<"p", "r", "o", "g", "r", "a", "m", "m", "i", "n", "g">>,
                      <<"d", "e", "v", "e", "l", "o", "p", "m", "e", "n", "t">>,
                      <<"s", "o", "f", "t", "w", "a", "r", "e">> }],
       [topic |-> "product",
        keywords |-> { <<"f", "e", "a", "t", "u", "r", "e", "s">>,
                      <<"s", "p", "e", "c", "i", "f", "i", "c", "a", "t", "i", "o", "n", "s">>,
                      <<"c", "a", "p", "a", "b", "i", "l", "i", "t", "i", "e", "s">>,
                      <<"f", "u", "n", "c", "t", "i", "o", "n", "s">> }],
       [topic |-> "support",
        keywords |-> { <<"h", "e", "l", "p">>,
                      <<"i", "s", "s", "u", "e">>,
                      <<"p", "r", "o", "b", "l", "e", "m">>,
                      <<"e", "r", "r", "o", "r">>,
                      <<"t", "r", "o", "u", "b", "l", "e", "s", "h", "o", "o", "t">> }],
       [topic |-> "information",
        keywords |-> { <<"w", "h", "a", "t">>,
                      <<"h", "o", "w">>,
                      <<"w", "h", "e", "n">>,
                      <<"w", "h", "e", "r", "e">>,
                      <<"w", "h", "y">>,
                      <<"e", "x", "p", "l", "a", "i", "n">> }],
       [topic |-> "configuration",
        keywords |-> { <<"s", "e", "t", "u", "p">>,
                      <<"c", "o", "n", "f", "i", "g">>,
                      <<"s", "e", "t", "t", "i", "n", "g", "s">>,
                      <<"i", "n", "s", "t", "a", "l", "l">>,
                      <<"c", "o", "n", "f", "i", "g", "u", "r", "e">> }] >>

\* _extract_topics
extract_topics(query, response) ==
    LET text == lower(JoinQR(query, response))
        hit(i) == \E kw \in topic_keywords[i].keywords : Contains(text, kw)
        RECURSIVE collect(_)
        collect(i) == IF i > Len(topic_keywords) THEN <<>>
                      ELSE (IF hit(i) THEN <<topic_keywords[i].topic>> ELSE <<>>)
                           \o collect(i + 1)
    IN  collect(1)

\* for topic in topics: if topic not in list: list.append(topic)
RECURSIVE AppendNew(_, _)
AppendNew(list, topics) ==
    IF topics = <<>> THEN list
    ELSE AppendNew(IF Head(topics) \in Range(list) THEN list
                   ELSE Append(list, Head(topics)),
                   Tail(topics))

(* ------------------------------------------------------------------ *)
(* VectorMemoryManager: operations as functions of the state            *)
(* ------------------------------------------------------------------ *)
\* _fit_vectorizer_if_needed as it would be without its try/except: the error
\* of vectorizer.fit reaches the caller
V_fit_uncaught(cache, threads, fitted, model, user_id, order, fault) ==
    IF ~fitted \/ ~cache[user_id].exists
    THEN LET ld == V_load_user_memories(cache, threads, user_id, order, fault)
             corpus == Documents(ld.memories)
         IN  IF ld.raised
             THEN [raised |-> TRUE, fitted |-> fitted, model |-> model, cache |-> cache]
             ELSE IF corpus # <<>> /\ FitRaises(corpus)
             THEN [raised |-> TRUE, fitted |-> fitted, model |-> model,
                   cache |-> ld.cache]
             ELSE IF corpus # <<>>
             THEN [raised |-> FALSE, fitted |-> TRUE, model |-> Fit(corpus, user_id),
                   cache |-> ld.cache]
             ELSE [raised |-> FALSE, fitted |-> fitted, model |-> model,
                   cache |-> ld.cache]
    ELSE [raised |-> FALSE, fitted |-> fitted, model |-> model, cache |-> cache]

\* _fit_vectorizer_if_needed
V_fit_vectorizer_if_needed(cache, threads, fitted, model, user_id, order, fault) ==
    IF ~fitted \/ ~cache[user_id].exists
    THEN LET ld == V_load_user_memories(cache, threads, user_id, order, fault)
             corpus == Documents(ld.memories)
         IN  IF ld.raised
             THEN [raised |-> TRUE, fitted |-> fitted, model |-> model, cache |-> cache]
             ELSE IF corpus # <<>> /\ ~FitRaises(corpus)
             THEN [raised |-> FALSE, fitted |-> TRUE, model |-> Fit(corpus, user_id),
                   cache |-> ld.cache]
             ELSE [raised |-> FALSE, fitted |-> fitted, model |-> model,
                   cache |-> ld.cache]
    ELSE [raised |-> FALSE, fitted |-> fitted, model |-> model, cache |-> cache]

\* get_relevant_memories: the list returned, the path taken, and the cache and
\* the vectorizer afterwards
V_get_relevant_memories(cache, threads, fitted, model, user_id, query, max_results, order, fault) ==
    LET ld == V_load_user_memories(cache, threads, user_id, order, fault)
        ft == V_fit_vectorizer_if_needed(ld.cache, threads, fitted, model,
                                         user_id, order, fault)
        out(list, path, c, f, m) ==
            [list |-> list, path |-> path, cache |-> c, fitted |-> f, model |-> m]
    IN  IF ld.raised
        THEN out(<<>>, "error", cache, fitted, model)
        ELSE IF ld.memories = <<>> \/ strip(query) = <<>>
        THEN out(<<>>, "empty", ld.cache, fitted, model)
        ELSE IF ft.raised
        THEN out(<<>>, "error", ft.cache, ft.fitted, ft.model)
        ELSE IF ~ft.fitted
        THEN out(keyword_based_search(ld.memories, query, max_results),
                 "fit_failed", ft.cache, ft.fitted, ft.model)
        ELSE IF fault = "transform"
        THEN out(keyword_based_search(ld.memories, query, max_results),
                 "transform_failed", ft.cache, ft.fitted, ft.model)
        ELSE out(VectorRank(ft.model, ld.memories, query, max_results),
                 "vector", ft.cache, ft.fitted, ft.model)

VDefaultProfile(user_id, t) ==
    [user_id |-> user_id, created_at |-> t, last_interaction |-> None,
     total_interactions |-> 0, preferences |-> {}, topics_of_interest |-> <<>>,
     memory_stats |-> [total_memories |-> 0,
                       avg_similarity_threshold |->
                           <<similarity_threshold, ThresholdDen>>]]

\* get_user_profile: the profile returned and the cache afterwards
V_get_user_profile(cache, threads, profiles, user_id, t, order, fault) ==
    LET default_profile == VDefaultProfile(user_id, t)
        ld == V_load_user_memories(cache, threads, user_id, order, fault)
        profile == IF profiles[user_id].exists THEN profiles[user_id].data
                   ELSE default_profile
    IN  IF profiles[user_id].exists /\ fault = "profile_read"
        THEN [profile |-> default_profile, cache |-> cache, failed |-> TRUE]
        ELSE IF ld.raised
        THEN [profile |-> default_profile, cache |-> cache, failed |-> TRUE]
        ELSE [profile |-> [profile EXCEPT !.memory_stats.total_memories =
                                              Len(ld.memories)],
              cache |-> ld.cache, failed |-> FALSE]

\* _update_user_interaction: the profile documents and the cache afterwards
V_update_user_interaction(cache, threads, profiles, user_id, query, response, t, order, fault) ==
    LET r == V_get_user_profile(cache, threads, profiles, user_id, t, order, fault)
        profile == [r.profile EXCEPT
                      !.last_interaction = Some(t),
                      !.total_interactions = @ + 1,
                      !.topics_of_interest =
                          AppendNew(@, extract_topics(query, response))]
    IN  [profiles |-> IF fault = "profile_write" THEN profiles
                      ELSE [profiles EXCEPT ![user_id] = File(profile)],
         cache |-> r.cache,
         wrote |-> fault # "profile_write",
         failed |-> r.failed \/ fault = "profile_write"]

\* the store as it would be if it left the cache entry in place
KeepCache(cache, user_id) == cache

\* lines 172-174 of store_conversation_memory: del self._memory_cache[user_id]
DropCache(cache, user_id) == [cache EXCEPT ![user_id] = NoFile]

\* lines 141-150 of store_conversation_memory; the id is the md5 input
VMemoryItem(user_id, thread_id, query, response, t, n) ==
    [id              |-> user_id \o <<"_", thread_id, "_">> \o query,
     timestamp       |-> t,
     thread_id       |-> thread_id,
     query           |-> strip(query),
     response        |-> strip(response),
     query_length    |-> Len(query),
     response_length |-> Len(response),
     topics          |-> extract_topics(query, response),
     g_seq           |-> n,
     g_user          |-> user_id]

\* update_user_profile, lines 412-422
VUpdatedProfile(profile, interaction_data) ==
    [profile EXCEPT
        !.preferences = IF interaction_data.has_preferences
                        THEN DictUpdate(@, interaction_data.preferences) ELSE @,
        !.topics_of_interest =
            IF interaction_data.has_topic /\ interaction_data.topic \notin Range(@)
            THEN Append(@, interaction_data.topic) ELSE @]

\* lines 369-404 of format_context_for_agent
VContext(profile, relevant_memories) ==
    LET memory_line(i) ==
            [Line("memory") EXCEPT
                !.num = i,
                !.date = relevant_memories[i].item.timestamp,
                !.score = [num |-> relevant_memories[i].num,
                           den |-> relevant_memories[i].den],
                !.query = relevant_memories[i].item.query,
                !.response = Prefix(relevant_memories[i].item.response, ExcerptLimit)]
    IN  IF relevant_memories = <<>> /\ profile.total_interactions = 0
        THEN <<>>
        ELSE << Line("header"), Line("profile_header"),
                [Line("total") EXCEPT !.num = profile.total_interactions] >>
             \o (IF profile.topics_of_interest # <<>>
                 THEN << [Line("topics") EXCEPT !.topics = profile.topics_of_interest] >>
                 ELSE <<>>)
             \o (IF profile.preferences # {}
                 THEN << [Line("preferences") EXCEPT !.prefs = profile.preferences] >>
                 ELSE <<>>)
             \o (IF relevant_memories # <<>>
                 THEN << Line("history_header") >>
                      \o [i \in DOMAIN relevant_memories |-> memory_line(i)]
                 ELSE <<>>)

(* ------------------------------------------------------------------ *)
(* VectorMemoryManager: the calls                                       *)
(* ------------------------------------------------------------------ *)
\* the listing order used where the list that is loaded is dropped again
AnyOrder == CHOOSE o \in ThreadOrders : TRUE

\* a fault is offered only where the step it fails is taken
LoadFaultApplies(user_id, fault) ==
    fault = "load" => ~memory_cache[user_id].exists

VStore(user_id, turn, fault) ==
    LET thread_id == turn.thread_id
        file == v_threads[user_id][thread_id]
        memory_item == VMemoryItem(user_id, thread_id, turn.query, turn.response,
                                   now, stores + 1)
        conversation == IF file.exists THEN file.data ELSE <<>>
        written == [v_threads EXCEPT ![user_id][thread_id] =
                                         File(Append(conversation, memory_item))]
        upd == V_update_user_interaction(memory_cache, written, v_profiles, user_id,
                                         turn.query, turn.response, now, AnyOrder,
                                         fault)
    IN  /\ manager = "VectorMemoryManager"
        /\ Faulty(fault)
        /\ stores < MaxStores
        /\ fault = "read" => file.exists
        /\ fault = "profile_read" => v_profiles[user_id].exists
        /\ LoadFaultApplies(user_id, fault)
        /\ IF fault \in {"read", "write"}
           THEN /\ ret' = [NoRet EXCEPT !.op = "store", !.user_id = user_id,
                                        !.returned = "False", !.io_failed = TRUE]
                /\ UNCHANGED << v_threads, v_profiles, memory_cache, hist, stores >>
           ELSE /\ v_threads' = written
                /\ v_profiles' = upd.profiles
                /\ memory_cache' = DropCache(upd.cache, user_id)
                /\ hist' = [hist EXCEPT ![user_id].stored = @ + 1]
                /\ stores' = stores + 1
                /\ ret' = [NoRet EXCEPT !.op = "store", !.user_id = user_id,
                                        !.returned = "True", !.io_failed = upd.failed,
                                        !.wrote_record = TRUE,
                                        !.wrote_profile = upd.wrote,
                                        !.had_cache = memory_cache[user_id].exists]
        /\ UNCHANGED << manager, similarity_threshold, now,
                        mm_files, mm_profiles, vectorizer_fitted,
                        vectorizer, calls, pc, loc >>

VGetRelevantMemories(user_id, query, max_results, order, fault) ==
    LET r == V_get_relevant_memories(memory_cache, v_threads, vectorizer_fitted,
                                     vectorizer, user_id, query, max_results,
                                     order, fault)
    IN  /\ manager = "VectorMemoryManager"
        /\ Faulty(fault)
        /\ calls < MaxCalls
        /\ calls' = calls + 1
        /\ LoadFaultApplies(user_id, fault)
        /\ memory_cache[user_id].exists => order = AnyOrder
        /\ fault = "transform" => r.path = "transform_failed"
        /\ memory_cache' = r.cache
        /\ vectorizer_fitted' = r.fitted
        /\ vectorizer' = r.model
        /\ ret' = [NoRet EXCEPT !.op = "get_relevant_memories", !.user_id = user_id,
                                !.query = query, !.max_results = max_results,
                                !.list = r.list, !.path = r.path,
                                !.io_failed = (fault # "none")]
        /\ UNCHANGED << manager, similarity_threshold, now,
                        mm_files, mm_profiles, v_threads, v_profiles,
                        stores, hist, pc, loc >>

VGetUserProfile(user_id, order, fault) ==
    LET r == V_get_user_profile(memory_cache, v_threads, v_profiles, user_id, now,
                                order, fault)
    IN  /\ manager = "VectorMemoryManager"
        /\ Faulty(fault)
        /\ calls < MaxCalls
        /\ calls' = calls + 1
        /\ LoadFaultApplies(user_id, fault)
        /\ memory_cache[user_id].exists => order = AnyOrder
        /\ fault = "profile_read" => v_profiles[user_id].exists
        /\ memory_cache' = r.cache
        /\ ret' = [NoRet EXCEPT !.op = "get_user_profile", !.user_id = user_id,
                                !.profile = r.profile, !.io_failed = r.failed]
        /\ UNCHANGED << manager, similarity_threshold, now,
                        mm_files, mm_profiles, v_threads, v_profiles,
                        vectorizer_fitted, vectorizer, stores, hist, pc, loc >>

VUpdateUserProfile(user_id, interaction_data, order, fault) ==
    LET r == V_get_user_profile(memory_cache, v_threads, v_profiles, user_id, now,
                                order, fault)
        profile == VUpdatedProfile(r.profile, interaction_data)
    IN  /\ manager = "VectorMemoryManager"
        /\ Faulty(fault)
        /\ calls < MaxCalls
        /\ calls' = calls + 1
        /\ LoadFaultApplies(user_id, fault)
        /\ memory_cache[user_id].exists => order = AnyOrder
        /\ fault = "profile_read" => v_profiles[user_id].exists
        /\ memory_cache' = r.cache
        /\ v_profiles' = IF fault = "profile_write" THEN v_profiles
                         ELSE [v_profiles EXCEPT ![user_id] = File(profile)]
        /\ ret' = [NoRet EXCEPT !.op = "update_user_profile", !.user_id = user_id,
                                !.profile = profile,
                                !.io_failed = r.failed \/ fault = "profile_write",
                                !.wrote_profile = (fault # "profile_write")]
        /\ UNCHANGED << manager, similarity_threshold, now, mm_files, mm_profiles, v_threads,
                        vectorizer_fitted, vectorizer, stores, hist, pc, loc >>

VFormatContextForAgent(user_id, query, order, fault) ==
    LET m == V_get_relevant_memories(memory_cache, v_threads, vectorizer_fitted,
                                     vectorizer, user_id, query, DefaultMaxResults,
                                     order, fault)
        r == V_get_user_profile(m.cache, v_threads, v_profiles, user_id, now,
                                order, fault)
    IN  /\ manager = "VectorMemoryManager"
        /\ Faulty(fault)
        /\ calls < MaxCalls
        /\ calls' = calls + 1
        /\ LoadFaultApplies(user_id, fault)
        /\ memory_cache[user_id].exists => order = AnyOrder
        /\ fault = "profile_read" => v_profiles[user_id].exists
        /\ fault = "transform" => m.path = "transform_failed"
        /\ memory_cache' = r.cache
        /\ vectorizer_fitted' = m.fitted
        /\ vectorizer' = m.model
        /\ ret' = [NoRet EXCEPT !.op = "format_context_for_agent",
                                !.user_id = user_id, !.query = query,
                                !.list = m.list, !.path = m.path,
                                !.profile = r.profile,
                                !.text = VContext(r.profile, m.list),
                                !.io_failed = (fault # "none")]
        /\ UNCHANGED << manager, similarity_threshold, now,
                        mm_files, mm_profiles, v_threads, v_profiles,
                        stores, hist, pc, loc >>

(* ------------------------------------------------------------------ *)
(* Two store operations running concurrently, each split where the      *)
(* code reads and writes the documents (no lock is taken)               *)
(* ------------------------------------------------------------------ *)
Procs == { 1, 2 }

IdleLoc == [user_id |-> <<>>,
            turn |-> [thread_id |-> "", query |-> <<>>, response |-> <<>>],
            fault |-> "none", loaded |-> <<>>, item_time |-> 0, g_seq |-> 0,
            returned |-> "", io_failed |-> FALSE, overlapped |-> FALSE,
            saved_at |-> 0]

Running(p) == pc[p] \notin {"idle", "done"}

\* the call is made
StoreBegin(p, user_id, turn, fault) ==
    /\ pc[p] = "idle"
    /\ pc' = [pc EXCEPT ![p] = "load"]
    /\ loc' = [q \in Procs |->
                 IF q = p
                 THEN [IdleLoc EXCEPT !.user_id = user_id, !.turn = turn,
                                      !.fault = fault, !.item_time = now,
                                      !.g_seq = p,
                                      !.overlapped = \E o \in Procs \ {p} : Running(o)]
                 ELSE IF Running(q) THEN [loc[q] EXCEPT !.overlapped = TRUE]
                      ELSE loc[q]]
    /\ Faulty(fault)
    /\ UNCHANGED << manager, similarity_threshold, now,
                    mm_files, mm_profiles, v_threads, v_profiles,
                    memory_cache, vectorizer_fitted, vectorizer, ret, stores, calls,
                    hist >>

\* the existing document is read
StoreLoad(p) ==
    LET l == loc[p]
        file == IF manager = "MemoryManager" THEN mm_files[safe_user_id(l.user_id)]
                ELSE v_threads[l.user_id][l.turn.thread_id]
    IN  /\ pc[p] = "load"
        /\ IF manager = "MemoryManager"
           THEN /\ loc' = [loc EXCEPT ![p].loaded = MMLoaded(file, l.fault),
                                      ![p].io_failed = file.exists /\ l.fault = "read"]
                /\ pc' = [pc EXCEPT ![p] = "save"]
           ELSE IF file.exists /\ l.fault = "read"
                THEN /\ loc' = [loc EXCEPT ![p].returned = "False",
                                           ![p].io_failed = TRUE]
                     /\ pc' = [pc EXCEPT ![p] = "done"]
                ELSE /\ loc' = [loc EXCEPT ![p].loaded =
                                               IF file.exists THEN file.data ELSE <<>>]
                     /\ pc' = [pc EXCEPT ![p] = "save"]
        /\ UNCHANGED << manager, similarity_threshold, now,
                        mm_files, mm_profiles, v_threads, v_profiles,
                        memory_cache, vectorizer_fitted, vectorizer, ret, stores,
                        calls, faults, hist >>

SavesSoFar == Cardinality({ q \in Procs : loc[q].saved_at > 0 })

\* the whole document is rewritten
StoreSave(p) ==
    LET l == loc[p]
    IN  /\ pc[p] = "save"
        /\ IF manager = "MemoryManager"
           THEN /\ mm_files' =
                       IF l.fault = "write" THEN mm_files
                       ELSE [mm_files EXCEPT ![safe_user_id(l.user_id)] =
                               File(MMNewMemories(l.loaded, l.turn.thread_id,
                                                  l.turn.query, l.turn.response, now,
                                                  l.g_seq, l.user_id))]
                /\ loc' = [loc EXCEPT ![p].returned = "None",
                                      ![p].io_failed = @ \/ l.fault = "write",
                                      ![p].saved_at = IF l.fault = "write" THEN 0
                                                      ELSE SavesSoFar + 1]
                /\ pc' = [pc EXCEPT ![p] = "done"]
                /\ UNCHANGED v_threads
           ELSE IF l.fault = "write"
                THEN /\ loc' = [loc EXCEPT ![p].returned = "False",
                                           ![p].io_failed = TRUE]
                     /\ pc' = [pc EXCEPT ![p] = "done"]
                     /\ UNCHANGED << mm_files, v_threads >>
                ELSE /\ v_threads' =
                            [v_threads EXCEPT ![l.user_id][l.turn.thread_id] =
                                File(Append(l.loaded,
                                            VMemoryItem(l.user_id, l.turn.thread_id,
                                                        l.turn.query, l.turn.response,
                                                        l.item_time, l.g_seq)))]
                     /\ loc' = [loc EXCEPT ![p].saved_at = SavesSoFar + 1]
                     /\ pc' = [pc EXCEPT ![p] = "finish"]
                     /\ UNCHANGED mm_files
        /\ UNCHANGED << manager, similarity_threshold, now, mm_profiles, v_profiles, memory_cache,
                        vectorizer_fitted, vectorizer, ret, stores, calls, faults,
                        hist >>

\* VectorMemoryManager: the profile is updated, the cache entry dropped and
\* True returned (lines 169-178)
StoreFinish(p) ==
    LET l == loc[p]
        upd == V_update_user_interaction(memory_cache, v_threads, v_profiles,
                                         l.user_id, l.turn.query, l.turn.response,
                                         now, AnyOrder, l.fault)
    IN  /\ pc[p] = "finish"
        /\ v_profiles' = upd.profiles
        /\ memory_cache' = DropCache(upd.cache, l.user_id)
        /\ loc' = [loc EXCEPT ![p].returned = "True", ![p].io_failed = upd.failed]
        /\ pc' = [pc EXCEPT ![p] = "done"]
        /\ UNCHANGED << manager, similarity_threshold, now, mm_files, mm_profiles, v_threads,
                        vectorizer_fitted, vectorizer, ret, stores, calls, faults,
                        hist >>

(* ------------------------------------------------------------------ *)
(* Specifications                                                       *)
(* ------------------------------------------------------------------ *)
\* the state after construction with the given similarity_threshold
Boot(threshold) ==
    /\ manager \in { "MemoryManager", "VectorMemoryManager" }
    /\ similarity_threshold = threshold
    /\ now = 0
    /\ mm_files = [f \in SafeIds |-> NoFile]
    /\ mm_profiles = [u \in UserIds |-> NoProfile]
    /\ v_threads = [u \in UserIds |-> [t \in ThreadIds |-> NoFile]]
    /\ v_profiles = [u \in UserIds |-> VNoProfile]
    /\ memory_cache = [u \in UserIds |-> NoFile]
    /\ vectorizer_fitted = FALSE
    /\ vectorizer = Unfitted
    /\ ret = NoRet
    /\ stores = 0
    /\ calls = 0
    /\ faults = 0
    /\ hist = [u \in UserIds |-> [stored |-> 0]]
    /\ pc = [p \in Procs |-> "idle"]
    /\ loc = [p \in Procs |-> IdleLoc]

\* both constructors with their default arguments
Init == Boot(ThresholdNum)

MMStoreFaults == { "none", "read", "write" }
MMProfileFaults == { "none", "profile_read", "profile_write" }
VStoreFaults == { "none", "read", "write", "load", "profile_read", "profile_write" }

\* store_conversation_memory of either manager, the I/O steps of FS may fail
Stores(FS) ==
    \/ \E u \in UserIds, turn \in Turns, f \in MMStoreFaults \cap FS :
           MMStore(u, turn, f)
    \/ \E u \in UserIds, turn \in Turns, f \in VStoreFaults \cap FS :
           VStore(u, turn, f)

\* get_relevant_memories of either manager
Retrieves(FS) ==
    \/ \E u \in UserIds, r \in Retrievals, f \in { "none", "read" } \cap FS :
           MMGetRelevantMemories(u, r.query, r.max_results, f)
    \/ \E u \in UserIds, r \in Retrievals, o \in ThreadOrders,
          f \in { "none", "load", "transform" } \cap FS :
           VGetRelevantMemories(u, r.query, r.max_results, o, f)

\* get_user_profile and update_user_profile of either manager
ProfileCalls(FS) ==
    \/ \E u \in UserIds, f \in MMProfileFaults \cap FS :
           MMGetUserProfile(u, f)
    \/ \E u \in UserIds, d \in InteractionData, f \in MMProfileFaults \cap FS :
           MMUpdateUserProfile(u, d, f)
    \/ \E u \in UserIds, o \in ThreadOrders,
          f \in { "none", "load", "profile_read" } \cap FS :
           VGetUserProfile(u, o, f)
    \/ \E u \in UserIds, d \in InteractionData, o \in ThreadOrders,
          f \in { "none", "load", "profile_read", "profile_write" } \cap FS :
           VUpdateUserProfile(u, d, o, f)

\* format_context_for_agent of either manager
Formats(FS) ==
    \/ \E u \in UserIds, q \in SearchQueries,
          f \in (MMProfileFaults \cup { "read" }) \cap FS :
           MMFormatContextForAgent(u, q, f)
    \/ \E u \in UserIds, q \in SearchQueries, o \in ThreadOrders,
          f \in { "none", "load", "profile_read", "transform" } \cap FS :
           VFormatContextForAgent(u, q, o, f)

NoFaults == { "none" }

\* every call of the two managers, the storage working
Next == Stores(NoFaults) \/ Retrieves(NoFaults) \/ ProfileCalls(NoFaults)
        \/ Formats(NoFaults)

Spec == Init /\ [][Next]_vars

\* stores as the clock advances
NextClock == Tick \/ Stores(NoFaults)

SpecClock == Init /\ [][NextClock]_vars

\* stores and profile calls with failing I/O steps
NextFault == Stores(Faults) \/ ProfileCalls(Faults)

SpecFault == Init /\ [][NextFault]_vars

\* the calls of VectorMemoryManager that read or drop the record cache, with
\* failing I/O steps
NextCache ==
    \/ \E u \in UserIds, turn \in Turns, f \in VStoreFaults :
           VStore(u, turn, f)
    \/ \E u \in UserIds, r \in Retrievals, o \in ThreadOrders,
          f \in { "none", "load", "transform" } :
           VGetRelevantMemories(u, r.query, r.max_results, o, f)
    \/ \E u \in UserIds, o \in ThreadOrders, f \in { "none", "load", "profile_read" } :
           VGetUserProfile(u, o, f)

\* VectorMemoryManager was constructed
InitCache == Init /\ manager = "VectorMemoryManager"

SpecCache == InitCache /\ [][NextCache]_vars

\* the calls of MemoryManager, against documents that may be unreadable,
\* unwritable, or valid JSON without the expected keys
NextDocs ==
    \/ \E u \in UserIds, turn \in Turns, f \in MMStoreFaults \cup {"record_fields"} :
           MMStore(u, turn, f)
    \/ \E u \in UserIds, r \in Retrievals, f \in {"none", "read", "record_fields"} :
           MMGetRelevantMemories(u, r.query, r.max_results, f)
    \/ \E u \in UserIds, f \in MMProfileFaults \cup {"profile_fields"} :
           MMGetUserProfile(u, f)
    \/ \E u \in UserIds, d \in InteractionData,
          f \in MMProfileFaults \cup {"profile_fields"} :
           MMUpdateUserProfile(u, d, f)
    \/ \E u \in UserIds, q \in SearchQueries,
          f \in MMProfileFaults \cup {"read", "record_fields", "profile_fields"} :
           MMFormatContextForAgent(u, q, f)

\* MemoryManager was constructed
InitDocs == Init /\ manager = "MemoryManager"

SpecDocs == InitDocs /\ [][NextDocs]_vars

NextRace ==
    \/ \E p \in Procs, u \in UserIds, turn \in Turns, f \in VStoreFaults :
           /\ manager = "MemoryManager" => f \in MMStoreFaults
           /\ StoreBegin(p, u, turn, f)
    \/ \E p \in Procs : StoreLoad(p)
    \/ \E p \in Procs : StoreSave(p)
    \/ \E p \in Procs : StoreFinish(p)

SpecRace == Init /\ [][NextRace]_vars

\* ranking: one user stores turns that score differently against the
\* queries, at different clock readings, and retrieves them; the transform
\* of the query may fail, which sends the call to the keyword search
RankUser == <<"a", ".", "b">>
RankTurns == { [thread_id |-> "t1",
                query |-> <<"A", "p", "i">>,
                response |-> <<"a", "p", "i", " ", "a", "b">>],
               [thread_id |-> "t2",
                query |-> <<"a", "b", " ", "a", "p", "i">>,
                response |-> <<"a", "b", " ", "a", "b", " ", "t", "h", "e">>] }
RankRetrievals == { [query |-> <<"a", "p", "i", " ", "a", "b">>, max_results |-> 1],
                    [query |-> <<"a", "p", "i">>, max_results |-> DefaultMaxResults],
                    [query |-> <<"a", "b">>, max_results |-> DefaultMaxResults],
                    [query |-> <<"a", "p", "i">>, max_results |-> 0],
                    [query |-> <<"t", "h", "e">>, max_results |-> DefaultMaxResults] }

NextRank ==
    \/ Tick
    \/ \E turn \in RankTurns : MMStore(RankUser, turn, "none")
    \/ \E turn \in RankTurns : VStore(RankUser, turn, "none")
    \/ \E r \in RankRetrievals :
           MMGetRelevantMemories(RankUser, r.query, r.max_results, "none")
    \/ \E r \in RankRetrievals, o \in ThreadOrders, f \in { "none", "transform" } :
           VGetRelevantMemories(RankUser, r.query, r.max_results, o, f)

SpecRank == Init /\ [][NextRank]_vars

\* the same calls, without the clock, for a manager constructed with
\* similarity_threshold 0 or with the default
Thresholds == { 0, ThresholdNum }

NextThreshold ==
    \/ \E turn \in RankTurns : MMStore(RankUser, turn, "none")
    \/ \E turn \in RankTurns : VStore(RankUser, turn, "none")
    \/ \E r \in RankRetrievals :
           MMGetRelevantMemories(RankUser, r.query, r.max_results, "none")
    \/ \E r \in RankRetrievals, o \in ThreadOrders, f \in { "none", "transform" } :
           VGetRelevantMemories(RankUser, r.query, r.max_results, o, f)

InitThreshold ==
    \E threshold \in Thresholds :
        /\ Boot(threshold)
        /\ manager = "MemoryManager" => threshold = ThresholdNum

SpecThreshold == InitThreshold /\ [][NextThreshold]_vars

\* long responses: the turns of Turns and one whose response is one character
\* longer than the cap of MemoryManager
LongResponse == [i \in 1 .. ResponseCap + 1 |-> "a"]
LongTurns == Turns \cup { [thread_id |-> "t1",
                           query |-> <<"A", "p", "i">>,
                           response |-> LongResponse] }

NextLong ==
    \/ \E u \in UserIds, turn \in LongTurns : MMStore(u, turn, "none")
    \/ \E u \in UserIds, turn \in LongTurns : VStore(u, turn, "none")

SpecLong == Init /\ [][NextLong]_vars

\* profile updates: one user stores turns and updates the profile with
\* topics, one of which the stored turns also carry, and with two values for
\* the same preference key
ProfileUpdates == { [has_topic |-> TRUE, topic |-> "products",
                     has_preferences |-> TRUE,
                     preferences |-> { <<"focus", "ar">> }],
                    [has_topic |-> TRUE, topic |-> "support",
                     has_preferences |-> TRUE,
                     preferences |-> { <<"focus", "vr">> }],
                    [has_topic |-> TRUE, topic |-> "technical",
                     has_preferences |-> FALSE, preferences |-> {}] }

NextProfile ==
    \/ \E turn \in Turns : MMStore(RankUser, turn, "none")
    \/ \E turn \in Turns : VStore(RankUser, turn, "none")
    \/ \E d \in ProfileUpdates : MMUpdateUserProfile(RankUser, d, "none")
    \/ \E d \in ProfileUpdates, o \in ThreadOrders :
           VUpdateUserProfile(RankUser, d, o, "none")

SpecProfile == Init /\ [][NextProfile]_vars

\* context blocks: one user stores a turn that carries a keyword of every
\* topic of _extract_topics, updates the profile and asks for the context
\* block; MemoryManager, whose retrieval reads the words of the stored query
\* only, is also given a turn whose response is one character longer than an
\* excerpt
LongExcerpt == [i \in 1 .. ExcerptLimit + 1 |-> "a"]
TopicTurn == [thread_id |-> "t1",
              query |-> <<"a", "p", "i", " ", "h", "e", "l", "p">>,
              response |-> <<"w", "h", "a", "t", " ", "s", "e", "t", "u", "p", " ",
                             "f", "e", "a", "t", "u", "r", "e", "s">>]
ContextTurns == { TopicTurn,
                  [thread_id |-> "t2",
                   query |-> <<"A", "p", "i">>,
                   response |-> LongExcerpt] }

NextContext ==
    \/ \E turn \in ContextTurns : MMStore(RankUser, turn, "none")
    \/ \E turn \in Turns \cup { TopicTurn } : VStore(RankUser, turn, "none")
    \/ \E d \in ProfileUpdates : MMUpdateUserProfile(RankUser, d, "none")
    \/ \E d \in ProfileUpdates, o \in ThreadOrders :
           VUpdateUserProfile(RankUser, d, o, "none")
    \/ \E q \in SearchQueries : MMFormatContextForAgent(RankUser, q, "none")
    \/ \E q \in SearchQueries, o \in ThreadOrders :
           VFormatContextForAgent(RankUser, q, o, "none")

SpecContext == Init /\ [][NextContext]_vars

\* blank responses: the turns of Turns and one whose response is a single
\* space, stored directly or through the event handler of the routes, which
\* holds the MemoryManager
BlankTurn == [thread_id |-> "t1", query |-> <<"A", "p", "i">>, response |-> <<" ">>]

\* MyEventHandler.on_end: the store is made only if agent_response.strip()
on_end(user_id, turn) ==
    IF strip(turn.response) # <<>>
    THEN MMStore(user_id, turn, "none")
    ELSE /\ manager = "MemoryManager"
         /\ ret' = [NoRet EXCEPT !.op = "on_end", !.user_id = user_id]
         /\ UNCHANGED << manager, similarity_threshold, now, mm_files, mm_profiles,
                         v_threads, v_profiles, memory_cache, vectorizer_fitted,
                         vectorizer, stores, calls, faults, hist, pc, loc >>

NextBlank ==
    \/ \E u \in UserIds, turn \in Turns \cup { BlankTurn } : MMStore(u, turn, "none")
    \/ \E u \in UserIds, turn \in Turns \cup { BlankTurn } : VStore(u, turn, "none")
    \/ \E u \in UserIds, turn \in Turns \cup { BlankTurn } : on_end(u, turn)

SpecBlank == Init /\ [][NextBlank]_vars

\* POST /api/memory/clear/{user_id}: logs the request and answers
\* {"status": "success", "message": "Memory cleared"}
clear_user_memory(user_id) ==
    /\ manager = "MemoryManager"
    /\ ret' = [NoRet EXCEPT !.op = "clear_user_memory", !.user_id = user_id,
                            !.returned = "success"]
    /\ UNCHANGED << manager, similarity_threshold, now, mm_files, mm_profiles,
                    v_threads, v_profiles, memory_cache, vectorizer_fitted,
                    vectorizer, stores, calls, faults, hist, pc, loc >>

\* the routes: the MemoryManager they hold stores, is asked to clear and
\* retrieves
NextClear ==
    \/ \E u \in UserIds, turn \in Turns : MMStore(u, turn, "none")
    \/ \E u \in UserIds : clear_user_memory(u)
    \/ \E u \in UserIds, r \in Retrievals :
           MMGetRelevantMemories(u, r.query, r.max_results, "none")

SpecClear == InitDocs /\ [][NextClear]_vars

(* ------------------------------------------------------------------ *)
(* Properties                                                           *)
(* ------------------------------------------------------------------ *)
\* the records persisted for a user: the list of its memory document, or the
\* lists of its thread documents
Records(u) ==
    IF manager = "MemoryManager" THEN mm_files[safe_user_id(u)].data
    ELSE ReadThreads(v_threads[u], AnyOrder)

\* the persisted profile document of a user
ProfileDoc(u) ==
    IF manager = "MemoryManager" THEN mm_profiles[u] ELSE v_profiles[u]

\* the persisted total_interactions of a user (0 while there is no document)
PersistedTotal(u) ==
    IF ProfileDoc(u).exists THEN ProfileDoc(u).data.total_interactions ELSE 0

\* the last step was a store_conversation_memory call that wrote the record
\* document
StoreWrote == ret.op = "store" /\ ret.wrote_record

\* C1: for every user, under either manager, the number of retained records
\* never exceeds max_memory_items.
C1_RetainedAtMostMax ==
    \A u \in UserIds : Len(Records(u)) <= max_memory_items

\* C2: when a store_conversation_memory call for a user has written, no
\* retained record of that user is older than memory_retention_days before
\* the time of the call.
C2_NoExpiredRecordAfterStore ==
    [][ \A u \in UserIds :
          (ret'.op = "store" /\ ret'.user_id = u /\ stores' = stores + 1)
             => \A i \in DOMAIN Records(u)' :
                   Records(u)'[i].timestamp >= now - memory_retention_days
      ]_vars

\* C3: after N store_conversation_memory calls of one user have written,
\* get_user_profile reports total_interactions = N and the user retains
\* min(N, max_memory_items) records.
C3_ProfileCountsStores ==
    ret.op = "get_user_profile"
        => /\ ret.profile.total_interactions = hist[ret.user_id].stored
           /\ Len(Records(ret.user_id))
                = Min(hist[ret.user_id].stored, max_memory_items)

\* C4: the persisted total_interactions of a user never decreases, whatever
\* is called and whichever I/O step fails.
C4_TotalInteractionsMonotonic ==
    [][ \A u \in UserIds : PersistedTotal(u)' >= PersistedTotal(u) ]_vars

\* the document a concurrent store operation rewrites, and its list
Doc(p) ==
    IF manager = "MemoryManager" THEN << safe_user_id(loc[p].user_id), "" >>
    ELSE << loc[p].user_id, loc[p].turn.thread_id >>

DocData(p) ==
    IF manager = "MemoryManager" THEN mm_files[safe_user_id(loc[p].user_id)].data
    ELSE v_threads[loc[p].user_id][loc[p].turn.thread_id].data

\* the record of operation p is in its document
Present(p) == \E i \in DOMAIN DocData(p) : DocData(p)[i].g_seq = loc[p].g_seq

\* operation p completed and reported success: VectorMemoryManager returned
\* True; MemoryManager, which returns None, logged no error
Succeeded(p) ==
    /\ pc[p] = "done"
    /\ IF manager = "MemoryManager" THEN ~loc[p].io_failed
       ELSE loc[p].returned = "True"

BothSucceededOnOneDocument ==
    /\ \A p \in Procs : Succeeded(p)
    /\ \A p, q \in Procs : Doc(p) = Doc(q)

\* C5: two successful stores to the same document that did not overlap both
\* leave their record in it; and when one record of two successful stores is
\* missing, the one that remains is that of the operation that wrote last.
C5_SerialStoresKeepBoth ==
    BothSucceededOnOneDocument
        => /\ (\A p \in Procs : ~loc[p].overlapped) => \A p \in Procs : Present(p)
           /\ \A p, q \in Procs :
                 (Present(p) /\ ~Present(q)) => loc[p].saved_at > loc[q].saved_at

\* C5 (the interleaving): both operations completed and reported success and
\* one of the two records is not in the document
C5_LostUpdate ==
    /\ BothSucceededOnOneDocument
    /\ \E p, q \in Procs : Present(p) /\ ~Present(q)

\* C6: a call made for one user changes neither the persisted records nor
\* the persisted profile of any other user.
C6_OtherUsersUntouched ==
    [][ \A a, b \in UserIds :
          (a # b /\ ret'.user_id = a)
             => /\ Records(b)' = Records(b)
                /\ ProfileDoc(b)' = ProfileDoc(b)
      ]_vars

C8_ModelFittedOnScoredRecords ==
    (ret.op = "get_relevant_memories" /\ ret.path = "vector")
        => /\ vectorizer.g_user = ret.user_id
           /\ Len(vectorizer.g_corpus) = Len(memory_cache[ret.user_id].data)
           /\ Range(vectorizer.g_corpus)
                = Range(Documents(memory_cache[ret.user_id].data))

\* C9: when get_relevant_memories of VectorMemoryManager finds the user with
\* records, the query not blank, and the model not fitted after the fit was
\* tried, or when the transform fails, it returns what _keyword_based_search
\* returns for the same records, query and max_results.
C9_FallbackIsLexical ==
    ret.op = "get_relevant_memories"
        => LET memories == memory_cache[ret.user_id].data
               lexical == keyword_based_search(memories, ret.query, ret.max_results)
           IN  /\ ( /\ memory_cache[ret.user_id].exists
                    /\ memories # <<>>
                    /\ strip(ret.query) # <<>>
                    /\ ~vectorizer_fitted ) => ret.list = lexical
               /\ ret.path = "transform_failed" => ret.list = lexical

\* C9 (its case): the fit failed on a corpus of a single record and the call
\* returned a record found by the lexical strategy
C9_FitFailedOnSingleRecord ==
    /\ ret.op = "get_relevant_memories"
    /\ ret.path = "fit_failed"
    /\ Len(memory_cache[ret.user_id].data) = 1
    /\ ret.list # <<>>

\* C10: store_conversation_memory returns False whenever an I/O step of the
\* call failed, and returns True only when the record and the profile were
\* both written.
C10_StoreReportsFailure ==
    ret.op = "store"
        => /\ ret.io_failed => ret.returned = "False"
           /\ ret.returned = "True" => (ret.wrote_record /\ ret.wrote_profile)

\* C11: whatever the state of the persisted documents, no call lets an
\* exception reach the caller.
C11_NoExceptionReachesCaller == ret.returned # "raised"

\* C12: get_user_profile for a user without a profile document returns the
\* default profile and leaves the user without a profile document.
C12_ProfileReadPersistsNothing ==
    [][ \A u \in UserIds :
          (ret'.op = "get_user_profile" /\ ret'.user_id = u /\ ~ProfileDoc(u).exists)
             => /\ ret'.profile.total_interactions = 0
                /\ ret'.profile.preferences = {}
                /\ ret'.profile.topics_of_interest = <<>>
                /\ ~ProfileDoc(u)'.exists
      ]_vars

\* C13: format_context_for_agent returns the empty string when the profile
\* has zero interactions and get_relevant_memories found nothing.
C13_EmptyContextWhenNothingKnown ==
    ( /\ ret.op = "format_context_for_agent"
      /\ ret.profile.total_interactions = 0
      /\ ret.list = <<>> ) => ret.text = <<>>

\* C14: format_context_for_agent leaves every persisted record document and
\* profile document as it was.
C14_FormatContextWritesNothing ==
    [][ ret'.op = "format_context_for_agent"
          => UNCHANGED << mm_files, mm_profiles, v_threads, v_profiles >> ]_vars

\* C15: get_relevant_memories returns an empty sequence, and raises nothing,
\* when no store for the user has written a record or when the query is blank.
C15_EmptyForNoRecordsOrBlankQuery ==
    ( /\ ret.op = "get_relevant_memories"
      /\ (hist[ret.user_id].stored = 0 \/ strip(ret.query) = <<>>) )
        => (ret.list = <<>> /\ ret.returned # "raised")

\* the record of entry e of a result (the vector manager returns copies that
\* carry similarity_score)
ResultItem(e) == IF manager = "MemoryManager" THEN e ELSE e.item

\* the score the strategy of the last get_relevant_memories gives record m
RankScore(m) ==
    IF manager = "MemoryManager"
    THEN [num |-> Cardinality(WordSet(ret.query) \cap WordSet(m.query)), den |-> 1]
    ELSE IF ret.path = "vector"
    THEN Cosine2(vectorizer, Terms(ret.query), Terms(strip(JoinQR(m.query, m.response))))
    ELSE LET words == WordSet(lower(JoinQR(m.query, m.response)))
         IN  [num |-> Cardinality(WordSet(ret.query) \cap words),
              den |-> Cardinality(WordSet(ret.query) \cup words)]

\* a record the strategy of the last get_relevant_memories may return
Eligible(m) ==
    IF manager = "VectorMemoryManager" /\ ret.path = "vector"
    THEN AtLeastThreshold(RankScore(m))
    ELSE RankScore(m).num > 0

Retrieved == ret.op = "get_relevant_memories" /\ ret.path # "error"

\* C16: a get_relevant_memories result has at most max_results entries, all
\* of them distinct eligible records of the user, in non-increasing order of
\* score, and an eligible record is left out only when the result is full and
\* no entry of it scores lower than that record.
C16_TopKByScore ==
    Retrieved =>
        LET list == ret.list
            recs == Records(ret.user_id)
            inside == { ResultItem(list[i]).g_seq : i \in DOMAIN list }
        IN  /\ Len(list) <= ret.max_results
            /\ \A i \in DOMAIN list :
                 /\ \E k \in DOMAIN recs : recs[k] = ResultItem(list[i])
                 /\ Eligible(ResultItem(list[i]))
            /\ \A i, j \in DOMAIN list :
                 /\ i # j => ResultItem(list[i]).g_seq # ResultItem(list[j]).g_seq
                 /\ i < j => ~ScoreLess(RankScore(ResultItem(list[i])),
                                        RankScore(ResultItem(list[j])))
            /\ \A k \in DOMAIN recs :
                 (Eligible(recs[k]) /\ recs[k].g_seq \notin inside)
                    => /\ Len(list) = ret.max_results
                       /\ \A i \in DOMAIN list :
                            ~ScoreLess(RankScore(ResultItem(list[i])),
                                       RankScore(recs[k]))

\* the vector strategy returned its best record and left out an eligible
\* record that scores lower
C16_LowerScoreLeftOut ==
    /\ Retrieved
    /\ manager = "VectorMemoryManager"
    /\ ret.path = "vector"
    /\ Len(ret.list) = ret.max_results
    /\ \E k \in DOMAIN Records(ret.user_id), i \in DOMAIN ret.list :
         /\ Eligible(Records(ret.user_id)[k])
         /\ ScoreLess(RankScore(Records(ret.user_id)[k]),
                      RankScore(ResultItem(ret.list[i])))

\* C17: of two entries of a get_relevant_memories result that have the same
\* score, the one created later comes first.
C17_TiesNewestFirst ==
    Retrieved =>
        \A i, j \in DOMAIN ret.list :
            ( /\ i < j
              /\ ~ScoreLess(RankScore(ResultItem(ret.list[i])),
                            RankScore(ResultItem(ret.list[j])))
              /\ ~ScoreLess(RankScore(ResultItem(ret.list[j])),
                            RankScore(ResultItem(ret.list[i]))) )
                => ResultItem(ret.list[i]).timestamp >= ResultItem(ret.list[j]).timestamp

\* C18: every entry of a get_relevant_memories result has a positive score,
\* and an entry returned by the vector strategy scores at least
\* similarity_threshold, whatever threshold the manager was constructed with.
C18_NoUnqualifiedRecordReturned ==
    Retrieved =>
        \A i \in DOMAIN ret.list :
            /\ RankScore(ResultItem(ret.list[i])).num > 0
            /\ (manager = "VectorMemoryManager" /\ ret.path = "vector")
                  => AtLeastThreshold(RankScore(ResultItem(ret.list[i])))

\* what get_relevant_memories returns for the arguments of the last call on
\* the persisted records, when the manager has served no call before
FreshResult(order) ==
    IF manager = "MemoryManager"
    THEN MM_get_relevant_memories(mm_files, ret.user_id, ret.query,
                                  ret.max_results, "none")
    ELSE V_get_relevant_memories([u \in UserIds |-> NoFile], v_threads, FALSE,
                                 Unfitted, ret.user_id, ret.query,
                                 ret.max_results, order, "none").list

\* C19: the result of get_relevant_memories is a function of user_id, query,
\* max_results and the persisted records alone: whatever calls the manager
\* served before, it is the result the same call has on the same records
\* when nothing was served before (for some listing order of the thread
\* files).
C19_ResultDependsOnInputsOnly ==
    (ret.op = "get_relevant_memories" /\ ~ret.io_failed)
        => \E order \in ThreadOrders : ret.list = FreshResult(order)

\* C20: when the user's only record shares a word with the query, a
\* get_relevant_memories call with max_results 3 returns exactly that record,
\* with a positive score.
C20_SingleRecordFoundBySharedWord ==
    ( /\ Retrieved
      /\ ret.max_results = DefaultMaxResults
      /\ Len(Records(ret.user_id)) = 1
      /\ WordSet(ret.query) \cap (WordSet(Records(ret.user_id)[1].query)
                                   \cup WordSet(Records(ret.user_id)[1].response)) # {} )
        => /\ Len(ret.list) = 1
           /\ ResultItem(ret.list[1]) = Records(ret.user_id)[1]
           /\ RankScore(Records(ret.user_id)[1]).num > 0

\* the records kept for user u, in whatever document they are
RetainedOf(u) ==
    IF manager = "MemoryManager"
    THEN { m \in UNION { Range(mm_files[f].data) : f \in SafeIds } : m.g_user = u }
    ELSE Range(ReadThreads(v_threads[u], AnyOrder))

\* older than the retention window at the current clock reading
Aged(m) == m.timestamp < now - memory_retention_days

\* at a position of the user's document that one more record pushes past the cap
BeyondCap(m, u) ==
    /\ manager = "MemoryManager"
    /\ \E k \in DOMAIN Records(u) : Records(u)[k] = m /\ k + 1 > max_memory_items

\* C21: a retained record disappears only in a store_conversation_memory call
\* for its user, and only if it is older than the retention window or the
\* oldest beyond the cap; no other call, and no store whose load failed,
\* removes a record.
C21_RecordsLeaveOnlyByRetention ==
    [][ \A u \in UserIds : \A m \in RetainedOf(u) :
          m \notin RetainedOf(u)'
             => /\ ret'.op = "store"
                /\ ret'.user_id = u
                /\ (Aged(m) \/ BeyondCap(m, u)) ]_vars

\* |Q \cap R| / |Q \cup R| for the words Q of the last query and the words R
\* of the query and response of record m; 0 when either set is empty
Jaccard(m) ==
    LET Q == WordSet(ret.query)
        R == WordSet(m.query) \cup WordSet(m.response)
    IN  IF Q = {} \/ R = {} THEN [num |-> 0, den |-> 1]
        ELSE [num |-> Cardinality(Q \cap R), den |-> Cardinality(Q \cup R)]

\* the last call was a retrieval served by the lexical strategy
LexicalRetrieval ==
    /\ Retrieved
    /\ \/ manager = "MemoryManager"
       \/ ret.path \in { "fit_failed", "transform_failed" }

\* C22: a result of the lexical strategy holds records with a positive
\* Jaccard score only, in non-increasing order of that score, and leaves out
\* a record with a positive Jaccard score only when the result is full and
\* none of its entries scores lower.
C22_LexicalScoreIsJaccard ==
    LexicalRetrieval =>
        LET list == ret.list
            recs == Records(ret.user_id)
            inside == { ResultItem(list[i]).g_seq : i \in DOMAIN list }
        IN  /\ \A i \in DOMAIN list : Jaccard(ResultItem(list[i])).num > 0
            /\ \A i, j \in DOMAIN list :
                 i < j => ~ScoreLess(Jaccard(ResultItem(list[i])),
                                     Jaccard(ResultItem(list[j])))
            /\ \A k \in DOMAIN recs :
                 (Jaccard(recs[k]).num > 0 /\ recs[k].g_seq \notin inside)
                    => /\ Len(list) = ret.max_results
                       /\ \A i \in DOMAIN list :
                            ~ScoreLess(Jaccard(ResultItem(list[i])), Jaccard(recs[k]))

\* every record that is persisted, of either manager
Persisted ==
    UNION { Range(mm_files[f].data) : f \in SafeIds }
        \cup UNION { Range(v_threads[u][t].data) : u \in UserIds, t \in ThreadIds }

\* C23: the response text of every persisted record is at most the size cap
\* (1000 characters) long.
C23_ResponseWithinCap == \A m \in Persisted : Len(m.response) <= ResponseCap

\* the record sequences a load of user u's records can return
Loadable(u) ==
    IF manager = "MemoryManager" THEN { mm_files[safe_user_id(u)].data }
    ELSE { ReadThreads(v_threads[u], o) : o \in ThreadOrders }

\* C24: after a store_conversation_memory call that wrote, the record
\* sequence of its user starts with the record just stored and is ordered by
\* timestamp, most recent first.
C24_NewestFirstAfterStore ==
    StoreWrote =>
        \A s \in Loadable(ret.user_id) :
            /\ s # <<>>
            /\ s[1].g_seq = stores
            /\ \A i, j \in DOMAIN s : i < j => s[i].timestamp >= s[j].timestamp

\* C25: in VectorMemoryManager two retained records of a user that come from
\* the same thread and query have the same id, and two retained records that
\* come from different (thread, query) pairs, or were stored at different
\* times, have different ids.
C25_RecordIdsStableAndDistinct ==
    manager = "VectorMemoryManager" =>
        \A u \in UserIds : \A m1, m2 \in RetainedOf(u) :
            /\ (m1.thread_id = m2.thread_id /\ m1.query = m2.query) => m1.id = m2.id
            /\ ( \/ m1.thread_id # m2.thread_id
                 \/ m1.query # m2.query
                 \/ m1.timestamp # m2.timestamp ) => m1.id # m2.id

\* C26: get_user_profile returns a profile that holds every default field,
\* also when the persisted document lacks some of them, and
\* update_user_profile on such a document succeeds.
C26_MissingProfileFieldsFilled ==
    /\ ret.op = "get_user_profile" => ret.returned # "incomplete"
    /\ ret.op = "update_user_profile" => ret.returned # "raised"

IsPrefix(s, t) == Len(s) <= Len(t) /\ SubSeq(t, 1, Len(s)) = s

NoDuplicate(s) == \A i, j \in DOMAIN s : i # j => s[i] # s[j]

\* the step is update_user_profile(u, d) of either manager
UpdateStep(u, d) ==
    \/ MMUpdateUserProfile(u, d, "none")
    \/ \E o \in ThreadOrders : VUpdateUserProfile(u, d, o, "none")

\* C27: in every step the persisted topics_of_interest of a user keep their
\* entries and their order, new topics are added at the end, no topic is
\* listed twice; an update_user_profile call leaves its topic in the list and
\* sets each preference key it carries to the new value, keeping the other
\* keys, one value per key; no other call changes the preferences.
C27_TopicsFirstSeenPreferencesLatest ==
    [][ \A u \in UserIds :
          LET old == ProfileDoc(u).data
              new == ProfileDoc(u)'.data
          IN  /\ IsPrefix(old.topics_of_interest, new.topics_of_interest)
              /\ NoDuplicate(new.topics_of_interest)
              /\ \A kv1, kv2 \in new.preferences : kv1[1] = kv2[1] => kv1 = kv2
              /\ \A d \in ProfileUpdates :
                   UpdateStep(u, d)
                      => /\ d.has_topic => d.topic \in Range(new.topics_of_interest)
                         /\ d.preferences \subseteq new.preferences
                         /\ \A kv \in old.preferences :
                              (\A nkv \in d.preferences : nkv[1] # kv[1])
                                 => kv \in new.preferences
              /\ (ret'.op # "update_user_profile" \/ ret'.user_id # u)
                    => new.preferences = old.preferences ]_vars

\* two updates gave the user a second topic and replaced the value of the
\* preference key they both set
C27_PreferenceReplaced ==
    /\ ret.op = "update_user_profile"
    /\ { "products", "support" } \subseteq Range(ret.profile.topics_of_interest)
    /\ ProfileDoc(ret.user_id).data = ret.profile
    /\ Cardinality(ret.profile.preferences) = 1

\* the lines of the profile section and of the memory section of a block
ProfileKinds == { "profile_header", "total", "preferences", "topics" }
MemoryKinds == { "history_header", "memory" }

\* C28: in a non-empty context block every line of the profile section comes
\* before every line of the memory section, the topics line lists at most 5
\* topics, there are at most 3 memories, and every response excerpt has at
\* most 200 characters.
C28_ContextBlockBounded ==
    (ret.op = "format_context_for_agent" /\ ret.text # <<>>) =>
        /\ \A i, j \in DOMAIN ret.text :
             (ret.text[i].kind \in ProfileKinds /\ ret.text[j].kind \in MemoryKinds)
                => i < j
        /\ \A i \in DOMAIN ret.text :
             /\ ret.text[i].kind = "topics" => Len(ret.text[i].topics) <= TopicLimit
             /\ ret.text[i].kind = "memory"
                   => Len(ret.text[i].response) <= ExcerptLimit
        /\ Cardinality({ i \in DOMAIN ret.text : ret.text[i].kind = "memory" })
              <= DefaultMaxResults

\* C29: a store_conversation_memory call with a blank response raises
\* nothing and leaves every record document and profile as it was.
C29_BlankResponseStoresNothing ==
    [][ \A u \in UserIds :
          (MMStore(u, BlankTurn, "none") \/ VStore(u, BlankTurn, "none"))
             => /\ ret'.returned # "raised"
                /\ UNCHANGED << mm_files, mm_profiles, v_threads, v_profiles >> ]_vars

\* C30: a get_relevant_memories call that follows a successful answer of the
\* clear-memory endpoint for the same user returns an empty sequence.
C30_NothingRetrievedAfterClear ==
    [][ ( /\ ret.op = "clear_user_memory"
          /\ ret.returned = "success"
          /\ ret'.op = "get_relevant_memories"
          /\ ret'.user_id = ret.user_id )
            => ret'.list = <<>> ]_vars

====
